---------------------------- MODULE Spec2Model ----------------------------
(***************************************************************************)
(* Model of the isupipe request handlers of webapp/go:                     *)
(*   - the statistics handlers and their sort-and-scan ranking             *)
(*     (stats_handler.go),                                                 *)
(*   - the reaction handlers (reaction handler file),                      *)
(*   - the tag cache and the theme handler (top_handler.go).               *)
(* The data store is an external collaborator: every query either          *)
(* succeeds with the rows of the tables below or fails.                    *)
(***************************************************************************)
EXTENDS Integers, Sequences, FiniteSets, TLC

\* ------------------------------------------------------------------ bounds
\* Number of distinct entity ids (users, livestreams) the tables may hold.
MaxId == 3
\* Reaction counts an entity may have, and tip totals it may have.
ReactionCounts == {0, 1}
TipValues == {0, 10, 30}
\* The livestream_viewers_history rows of the user a statistics request
\* names: per livestream the user owns, the number of its rows. The user owns
\* no livestream, one without rows, one with two rows, or two with one and
\* two rows.
ViewersHistories == {<<>>, <<0>>, <<2>>, <<1, 2>>}
\* Number of rows the reactions table may hold before the request.
MaxRows == 1
\* Number of distinct tag ids, the tag names and the number of initTagCache
\* calls of one run.
MaxTagId == 2
TagNames == {"a", "b"}
MaxCalls == 2
\* The concurrent readers of the cache and the operations each one calls:
\* one request that looks tags up and one request to getTagHandler.
ReaderOps ==
    [lookup |-> {"GetTagByID", "GetTagIDByName"},
     handler |-> {"getTagHandler"}]
Readers == DOMAIN ReaderOps

Ids == 1..MaxId

\* ------------------------------------------------------------------ state
VARIABLES
    handler,        \* which handler serves the request
    pc,             \* position of the request inside its handler
    tx,             \* the request's transaction: its state (none, open,
                    \* committed, rolledback) and the rows it inserted
    status,         \* HTTP status of the response, 0 while none was sent
    users,          \* users table: set of user ids (name is UserName(id))
    userReactions,  \* per user: COUNT(*) of reactions on the user's livestreams
    userTips,       \* per user: SUM(tip) of livecomments on the user's livestreams
    livestreams,    \* livestreams table: set of livestream ids
    lsReactions,    \* per livestream: COUNT(*) of its reactions
    lsTips,         \* per livestream: SUM(tip) of its livecomments
    reactions,      \* reactions table: ids of the committed rows
    viewersHistory, \* livestream_viewers_history: for each livestream owned
                    \* by the user :username names, the number of its rows
    username,       \* path parameter :username
    livestreamID,   \* path parameter :livestream_id
    userID,         \* user id of the session
    ranking,        \* the handler's local ranking slice (after sort.Sort)
    rank,           \* the handler's local rank, 0 before the scan
    reactionID,     \* postReactionHandler's reactionID, 0 before LastInsertId
    viewersCount,   \* getUserStatisticsHandler's viewersCount
    tagsTable,      \* tags table: tag id -> name, for the ids it holds
    tags,           \* tagCache.tags: id -> TagModel
    nameToID,       \* tagCache.nameToID: name -> id
    mu,             \* tagCache.mu: whether a writer holds it, and how many readers
    tagModels,      \* initTagCache's tagModels, the rows it read
    idx,            \* position of initTagCache's range loop in tagModels
    calls,          \* number of initTagCache calls made so far
    rd,             \* per reader of the cache: position, operation, argument, result
    atCall,         \* the cache contents when the latest initTagCache call started
    stable          \* the cache contents when the write lock was last free

reqVars == <<handler, pc, tx, status>>
paramVars == <<username, livestreamID, userID>>
localVars == <<ranking, rank, reactionID, viewersCount>>
dbVars ==
    <<users, userReactions, userTips, livestreams, lsReactions, lsTips, reactions,
      viewersHistory>>
cacheVars == <<tags, nameToID, mu, stable>>
tagVars == <<tagsTable, cacheVars, tagModels, idx, calls, rd, atCall>>
vars == <<reqVars, paramVars, localVars, dbVars, tagVars>>

\* ------------------------------------------------------------------ strings
\* A Go string is a byte sequence; a user name is modelled by its bytes.
\* Odd ids get two-byte names starting with 'b', even ids get runs of 'a',
\* so that the name order differs from the id order: 2 < 4 < 1 < 3.
UserName(id) ==
    IF id % 2 = 1 THEN <<98, 96 + id>>
    ELSE [k \in 1..(id \div 2) |-> 97]

Min(a, b) == IF a < b THEN a ELSE b

\* Go's < on strings: bytewise lexicographic, a proper prefix is smaller.
StringLess(a, b) ==
    \E k \in 1..(Min(Len(a), Len(b)) + 1) :
        /\ \A i \in 1..(k - 1) : a[i] = b[i]
        /\ \/ k <= Len(a) /\ k <= Len(b) /\ a[k] < b[k]
           \/ k = Len(a) + 1 /\ k <= Len(b)

\* ------------------------------------------------------------------ ranking
\* Mutant of LivestreamRankingLess: equal scores ordered by descending id.
LivestreamRankingLessTieDescending(a, b) ==
    IF a.Score = b.Score
    THEN a.LivestreamID > b.LivestreamID
    ELSE a.Score < b.Score

\* func (r LivestreamRanking) Less(i, j int) bool, on two entries.
LivestreamRankingLess(a, b) ==
    IF a.Score = b.Score
    THEN a.LivestreamID < b.LivestreamID
    ELSE a.Score < b.Score

\* Mutant of UserRankingLess: the tie-break on the name is missing.
UserRankingLessNoTieBreak(a, b) ==
    a.Score < b.Score

\* func (r UserRanking) Less(i, j int) bool, on two entries.
UserRankingLess(a, b) ==
    IF a.Score = b.Score
    THEN StringLess(a.Username, b.Username)
    ELSE a.Score < b.Score

\* data.Less(i, j) of sort.Interface: the call is dispatched on the dynamic
\* type of the slice, UserRanking or LivestreamRanking.
Less(a, b) ==
    IF "Username" \in DOMAIN a
    THEN UserRankingLess(a, b)
    ELSE LivestreamRankingLess(a, b)

\* The inner loop of insertion sort:
\*   for j := i; j > a && data.Less(j, j-1); j-- { data.Swap(j, j-1) }
RECURSIVE SiftLeft(_, _)
SiftLeft(s, j) ==
    IF j > 1 /\ Less(s[j], s[j - 1])
    THEN SiftLeft([s EXCEPT ![j] = s[j - 1], ![j - 1] = s[j]], j - 1)
    ELSE s

\* The outer loop of insertion sort: for i := a + 1; i < b; i++.
RECURSIVE InsertionSort(_, _)
InsertionSort(s, i) ==
    IF i > Len(s) THEN s ELSE InsertionSort(SiftLeft(s, i), i + 1)

\* Mutant of Sort: the slice is left in the order it was built in.
SortNone(s) == s

\* sort.Sort(ranking): for slices this short the library runs insertion sort.
Sort(s) == InsertionSort(s, 2)

\* The ids of a set in ascending order (rows come back in primary-key order).
SetToSeq(S) ==
    LET nth[k \in 0..Cardinality(S)] ==
            IF k = 0 THEN <<>>
            ELSE LET rest == S \ {nth[k - 1][i] : i \in 1..(k - 1)}
                 IN Append(nth[k - 1], CHOOSE x \in rest : \A y \in rest : x <= y)
    IN nth[Cardinality(S)]

\* Mutant of UserRank: rank is incremented before the entry is compared.
UserRankIncrementFirst(r, name) ==
    LET scan[i \in 0..Len(r)] ==
            IF i = 0 THEN 0
            ELSE IF r[i].Username = name THEN 1
            ELSE 1 + scan[i - 1]
    IN 1 + scan[Len(r)]

\* Mutant of UserRank: a scan that matched no entry stops at the number of
\* entries.
UserRankAbsentIsLast(r, name) ==
    LET scan[i \in 0..Len(r)] ==
            IF i = 0 THEN 0
            ELSE IF r[i].Username = name THEN 0
            ELSE 1 + scan[i - 1]
    IN Min(1 + scan[Len(r)], Len(r))

\* The rank-scan loop of getUserStatisticsHandler:
\*   rank := 1; for i := len-1 .. 0 { if entry.Username == username {break}; rank++ }
UserRank(r, name) ==
    LET scan[i \in 0..Len(r)] ==
            \* scan[i]: increments made from index i downwards
            IF i = 0 THEN 0
            ELSE IF r[i].Username = name THEN 0
            ELSE 1 + scan[i - 1]
    IN 1 + scan[Len(r)]

\* Mutant of LivestreamRank: the scan walks from the start of the slice.
LivestreamRankFromFront(r, id) ==
    LET scan[i \in 1..(Len(r) + 1)] ==
            IF i = Len(r) + 1 THEN 0
            ELSE IF r[i].LivestreamID = id THEN 0
            ELSE 1 + scan[i + 1]
    IN 1 + scan[1]

\* The rank-scan loop of getLivestreamStatisticsHandler.
LivestreamRank(r, id) ==
    LET scan[i \in 0..Len(r)] ==
            IF i = 0 THEN 0
            ELSE IF r[i].LivestreamID = id THEN 0
            ELSE 1 + scan[i - 1]
    IN 1 + scan[Len(r)]

\* userScoresMap after the reactions and tips rows were mapped back; the
\* INNER JOINs return no row for a user without reactions (or tips), whose
\* field then keeps its zero value.
UserScoresMap ==
    [u \in users |->
        [UserID |-> u,
         Reactions |-> IF userReactions[u] > 0 THEN userReactions[u] ELSE 0,
         Tips |-> IF userTips[u] > 0 THEN userTips[u] ELSE 0]]

\* ranking as appended by the `for _, user := range users` loop.
UserRankingEntries ==
    LET us == SetToSeq(users)
        userScoresMap == UserScoresMap
    IN [i \in 1..Len(us) |->
            [Username |-> UserName(us[i]),
             Score |-> userScoresMap[us[i]].Reactions + userScoresMap[us[i]].Tips]]

\* ranking as appended by the `for _, livestream := range livestreams` loop.
LivestreamRankingEntries ==
    LET ls == SetToSeq(livestreams)
    IN [i \in 1..Len(ls) |->
            [LivestreamID |-> ls[i],
             Score |-> lsReactions[ls[i]] + lsTips[ls[i]]]]

\* ------------------------------------------------------------------ requests
\* dbConn.BeginTxx succeeded.
TxOpen == [state |-> "open", inserted |-> {}]

\* The deferred tx.Rollback(): it discards what an open transaction wrote
\* and is a no-op (sql.ErrTxDone) on a transaction that was committed.
Rollback(t) ==
    IF t.state = "open" THEN [state |-> "rolledback", inserted |-> {}] ELSE t

\* A handler returns after BeginTxx: the response is sent and the deferred
\* tx.Rollback() runs. (Before BeginTxx there is no transaction and
\* Rollback leaves the state "none" alone.)
Return(code) ==
    /\ status' = code
    /\ pc' = "done"
    /\ tx' = Rollback(tx)

\* A failing step: the handler returns an error response, and a
\* transaction that was open loses its rows.
Fail(code) ==
    /\ Return(code)
    /\ UNCHANGED <<localVars, dbVars>>

\* tx.Commit() succeeded: the rows the transaction inserted are in the table.
Commit ==
    /\ tx' = [tx EXCEPT !.state = "committed"]
    /\ reactions' = reactions \cup tx.inserted
    /\ UNCHANGED <<users, userReactions, userTips, livestreams, lsReactions, lsTips, viewersHistory>>

\* ---------------------------------------------- getUserStatisticsHandler
\* verifyUserSession and BeginTxx; `defer tx.Rollback()` is registered.
UserStatsBegin ==
    /\ handler = "getUserStatistics" /\ pc = "start"
    /\ \E sessionOK, beginOK \in BOOLEAN :
        IF ~sessionOK THEN Fail(401)
        ELSE IF ~beginOK THEN Fail(500)
        ELSE /\ tx' = TxOpen
             /\ pc' = "getTarget"
             /\ UNCHANGED <<status, localVars, dbVars>>
    /\ UNCHANGED <<handler, paramVars, tagVars>>

\* SELECT * FROM users WHERE name = ?
UserStatsGetUser ==
    /\ handler = "getUserStatistics" /\ pc = "getTarget"
    /\ \E queryOK \in BOOLEAN :
        IF ~queryOK THEN Fail(500)
        ELSE IF \A u \in users : UserName(u) # username THEN Fail(400)
        ELSE /\ pc' = "rank"
             /\ UNCHANGED <<tx, status, localVars, dbVars>>
    /\ UNCHANGED <<handler, paramVars, tagVars>>

\* The three SELECTs of the ranking, the construction of ranking,
\* sort.Sort(ranking) and the rank-scan loop.
UserStatsRank ==
    /\ handler = "getUserStatistics" /\ pc = "rank"
    /\ \E usersOK, reactionsOK, tipsOK \in BOOLEAN :
        IF ~(usersOK /\ reactionsOK /\ tipsOK) THEN Fail(500)
        ELSE /\ ranking' = Sort(UserRankingEntries)
             /\ rank' = UserRank(ranking', username)
             /\ pc' = "totals"
             /\ UNCHANGED <<tx, status, reactionID, viewersCount, dbVars>>
    /\ UNCHANGED <<handler, paramVars, tagVars>>

\* `var livestreams []*LivestreamModel` of getUserStatisticsHandler: the
\* slice is declared and never assigned, so it is nil at the viewers loop.
UserStatsLivestreams == <<>>

\* The viewers loop over the slice ls:
\*   for _, livestream := range livestreams {
\*       SELECT COUNT(*) FROM livestream_viewers_history WHERE livestream_id = ?
\*       viewersCount += cnt }
ViewersCount(ls) ==
    LET sum[i \in 0..Len(ls)] ==
            IF i = 0 THEN 0 ELSE sum[i - 1] + viewersHistory[ls[i]]
    IN sum[Len(ls)]

\* The total-reactions, per-livestream statistics and favorite-emoji queries
\* and the viewers loop (its query runs once per element of the slice, that
\* is, never), then c.JSON(http.StatusOK, stats): the handler returns
\* without calling tx.Commit().
UserStatsTotals ==
    /\ handler = "getUserStatistics" /\ pc = "totals"
    /\ \E reactionsOK, statsOK, emojiOK \in BOOLEAN :
        IF ~(reactionsOK /\ statsOK /\ emojiOK) THEN Fail(500)
        ELSE /\ viewersCount' = ViewersCount(UserStatsLivestreams)
             /\ Return(200)
             /\ UNCHANGED <<ranking, rank, reactionID, dbVars>>
    /\ UNCHANGED <<handler, paramVars, tagVars>>

\* ---------------------------------------- getLivestreamStatisticsHandler
\* verifyUserSession, strconv.Atoi of the path parameter, BeginTxx.
LivestreamStatsBegin ==
    /\ handler = "getLivestreamStatistics" /\ pc = "start"
    /\ \E sessionOK, atoiOK, beginOK \in BOOLEAN :
        IF ~sessionOK THEN Fail(401)
        ELSE IF ~atoiOK THEN Fail(400)
        ELSE IF ~beginOK THEN Fail(500)
        ELSE /\ tx' = TxOpen
             /\ pc' = "getTarget"
             /\ UNCHANGED <<status, localVars, dbVars>>
    /\ UNCHANGED <<handler, paramVars, tagVars>>

\* SELECT * FROM livestreams WHERE id = ?
LivestreamStatsGetLivestream ==
    /\ handler = "getLivestreamStatistics" /\ pc = "getTarget"
    /\ \E queryOK \in BOOLEAN :
        IF ~queryOK THEN Fail(500)
        ELSE IF livestreamID \notin livestreams THEN Fail(400)
        ELSE /\ pc' = "rank"
             /\ UNCHANGED <<tx, status, localVars, dbVars>>
    /\ UNCHANGED <<handler, paramVars, tagVars>>

\* SELECT * FROM livestreams, the per-livestream reaction and tip queries,
\* sort.Sort(ranking) and the rank-scan loop.
LivestreamStatsRank ==
    /\ handler = "getLivestreamStatistics" /\ pc = "rank"
    /\ \E livestreamsOK, scoresOK \in BOOLEAN :
        IF ~(livestreamsOK /\ scoresOK) THEN Fail(500)
        ELSE /\ ranking' = Sort(LivestreamRankingEntries)
             /\ rank' = LivestreamRank(ranking', livestreamID)
             /\ pc' = "totals"
             /\ UNCHANGED <<tx, status, reactionID, viewersCount, dbVars>>
    /\ UNCHANGED <<handler, paramVars, tagVars>>

\* The viewers, max-tip, reactions and reports queries.
LivestreamStatsTotals ==
    /\ handler = "getLivestreamStatistics" /\ pc = "totals"
    /\ \E queriesOK \in BOOLEAN :
        IF ~queriesOK THEN Fail(500)
        ELSE /\ pc' = "commit"
             /\ UNCHANGED <<tx, status, localVars, dbVars>>
    /\ UNCHANGED <<handler, paramVars, tagVars>>

\* tx.Commit() and c.JSON(http.StatusOK, ...).
LivestreamStatsCommit ==
    /\ handler = "getLivestreamStatistics" /\ pc = "commit"
    /\ \E commitOK \in BOOLEAN :
        IF ~commitOK THEN Fail(500)
        ELSE /\ Commit
             /\ status' = 200
             /\ pc' = "done"
             /\ UNCHANGED localVars
    /\ UNCHANGED <<handler, paramVars, tagVars>>

\* The handlers read the target's row and then the whole table with two
\* queries of a transaction begun with BeginTxx(ctx, nil), that is, at the
\* isolation level the server is configured with. Another client deletes the
\* target's row after the first query found it; the second query, reading
\* the table as it is then, returns the rows without it.
TargetRowDeleted ==
    /\ pc = "rank"
    /\ \/ /\ handler = "getUserStatistics"
          /\ \E u \in users : UserName(u) = username
          /\ users' = {u \in users : UserName(u) # username}
          /\ userReactions' = [u \in users' |-> userReactions[u]]
          /\ userTips' = [u \in users' |-> userTips[u]]
          /\ UNCHANGED <<livestreams, lsReactions, lsTips>>
       \/ /\ handler = "getLivestreamStatistics"
          /\ livestreamID \in livestreams
          /\ livestreams' = livestreams \ {livestreamID}
          /\ lsReactions' = [l \in livestreams' |-> lsReactions[l]]
          /\ lsTips' = [l \in livestreams' |-> lsTips[l]]
          /\ UNCHANGED <<users, userReactions, userTips>>
    /\ UNCHANGED <<reqVars, paramVars, localVars, reactions, viewersHistory, tagVars>>

\* ---------------------------------------------------- getReactionsHandler
\* verifyUserSession, strconv.Atoi of the path parameter, BeginTxx.
GetReactionsBegin ==
    /\ handler = "getReactions" /\ pc = "start"
    /\ \E sessionOK, atoiOK, beginOK \in BOOLEAN :
        IF ~sessionOK THEN Fail(401)
        ELSE IF ~atoiOK THEN Fail(400)
        ELSE IF ~beginOK THEN Fail(500)
        ELSE /\ tx' = TxOpen
             /\ pc' = "select"
             /\ UNCHANGED <<status, localVars, dbVars>>
    /\ UNCHANGED <<handler, paramVars, tagVars>>

\* The limit parameter, the SELECT of the reactions (a failure is answered
\* with 404) and fillReactionsResponse.
GetReactionsSelect ==
    /\ handler = "getReactions" /\ pc = "select"
    /\ \E limitOK, selectOK, fillOK \in BOOLEAN :
        IF ~limitOK THEN Fail(400)
        ELSE IF ~selectOK THEN Fail(404)
        ELSE IF ~fillOK THEN Fail(500)
        ELSE /\ pc' = "commit"
             /\ UNCHANGED <<tx, status, localVars, dbVars>>
    /\ UNCHANGED <<handler, paramVars, tagVars>>

\* tx.Commit() and c.JSON(http.StatusOK, reactions).
GetReactionsCommit ==
    /\ handler = "getReactions" /\ pc = "commit"
    /\ \E commitOK \in BOOLEAN :
        IF ~commitOK THEN Fail(500)
        ELSE /\ Commit
             /\ status' = 200
             /\ pc' = "done"
             /\ UNCHANGED localVars
    /\ UNCHANGED <<handler, paramVars, tagVars>>

\* ---------------------------------------------------- postReactionHandler
\* strconv.Atoi of the path parameter, verifyUserSession, the decoding of
\* the request body, BeginTxx.
PostReactionBegin ==
    /\ handler = "postReaction" /\ pc = "start"
    /\ \E atoiOK, sessionOK, decodeOK, beginOK \in BOOLEAN :
        IF ~atoiOK THEN Fail(400)
        ELSE IF ~sessionOK THEN Fail(401)
        ELSE IF ~decodeOK THEN Fail(400)
        ELSE IF ~beginOK THEN Fail(500)
        ELSE /\ tx' = TxOpen
             /\ pc' = "insert"
             /\ UNCHANGED <<status, localVars, dbVars>>
    /\ UNCHANGED <<handler, paramVars, tagVars>>

\* The id AUTO_INCREMENT gives the next row of the reactions table.
NextReactionID == Cardinality(reactions) + 1

\* Mutant of PostReactionInsert: the INSERT runs on dbConn, outside the
\* transaction, and is committed at once.
PostReactionInsertAutocommit ==
    /\ handler = "postReaction" /\ pc = "insert"
    /\ \E reqNil, insertOK \in BOOLEAN :
        IF reqNil THEN Fail(0)
        ELSE IF ~insertOK THEN Fail(500)
        ELSE /\ reactions' = reactions \cup {NextReactionID}
             /\ pc' = "lastInsertId"
             /\ UNCHANGED <<tx, status, localVars>>
             /\ UNCHANGED <<users, userReactions, userTips, livestreams, lsReactions, lsTips, viewersHistory>>
    /\ UNCHANGED <<handler, paramVars, tagVars>>

\* reactionModel is built from req (a body of `null` decodes to a nil req,
\* whose dereference panics: the deferred Rollback runs and the handler
\* writes no response), then tx.NamedExecContext runs the INSERT.
PostReactionInsert ==
    /\ handler = "postReaction" /\ pc = "insert"
    /\ \E reqNil, insertOK \in BOOLEAN :
        IF reqNil THEN Fail(0)
        ELSE IF ~insertOK THEN Fail(500)
        ELSE /\ tx' = [tx EXCEPT !.inserted = {NextReactionID}]
             /\ pc' = "lastInsertId"
             /\ UNCHANGED <<status, localVars, dbVars>>
    /\ UNCHANGED <<handler, paramVars, tagVars>>

\* result.LastInsertId()
PostReactionLastInsertId ==
    /\ handler = "postReaction" /\ pc = "lastInsertId"
    /\ \E idOK \in BOOLEAN :
        IF ~idOK THEN Fail(500)
        ELSE /\ reactionID' = NextReactionID
             /\ pc' = "fill"
             /\ UNCHANGED <<tx, status, ranking, rank, viewersCount, dbVars>>
    /\ UNCHANGED <<handler, paramVars, tagVars>>

\* fillReactionResponse: the user lookup, fillUserResponse, the livestream
\* lookup and fillLivestreamResponse; a lookup of an absent row fails with
\* sql.ErrNoRows.
FillReactionResponseOK(userQueryOK, fillUserOK, livestreamQueryOK, fillLivestreamOK) ==
    /\ userQueryOK /\ userID \in users
    /\ fillUserOK
    /\ livestreamQueryOK /\ livestreamID \in livestreams
    /\ fillLivestreamOK

PostReactionFill ==
    /\ handler = "postReaction" /\ pc = "fill"
    /\ \E userQueryOK, fillUserOK, livestreamQueryOK, fillLivestreamOK \in BOOLEAN :
        IF ~FillReactionResponseOK(userQueryOK, fillUserOK, livestreamQueryOK, fillLivestreamOK)
        THEN Fail(500)
        ELSE /\ pc' = "commit"
             /\ UNCHANGED <<tx, status, localVars, dbVars>>
    /\ UNCHANGED <<handler, paramVars, tagVars>>

\* tx.Commit() and c.JSON(http.StatusCreated, reaction).
PostReactionCommit ==
    /\ handler = "postReaction" /\ pc = "commit"
    /\ \E commitOK \in BOOLEAN :
        IF ~commitOK THEN Fail(500)
        ELSE /\ Commit
             /\ status' = 201
             /\ pc' = "done"
             /\ UNCHANGED localVars
    /\ UNCHANGED <<handler, paramVars, tagVars>>

\* ------------------------------------------------ getStreamerThemeHandler
\* verifyUserSession and BeginTxx.
StreamerThemeBegin ==
    /\ handler = "getStreamerTheme" /\ pc = "start"
    /\ \E sessionOK, beginOK \in BOOLEAN :
        IF ~sessionOK THEN Fail(401)
        ELSE IF ~beginOK THEN Fail(500)
        ELSE /\ tx' = TxOpen
             /\ pc' = "getTarget"
             /\ UNCHANGED <<status, localVars, dbVars>>
    /\ UNCHANGED <<handler, paramVars, tagVars>>

\* SELECT id FROM users WHERE name = ? (sql.ErrNoRows is answered with 404)
\* and SELECT * FROM themes WHERE user_id = ?
StreamerThemeQueries ==
    /\ handler = "getStreamerTheme" /\ pc = "getTarget"
    /\ \E userQueryOK, themeQueryOK \in BOOLEAN :
        IF userQueryOK /\ \A u \in users : UserName(u) # username THEN Fail(404)
        ELSE IF ~userQueryOK THEN Fail(500)
        ELSE IF ~themeQueryOK THEN Fail(500)
        ELSE /\ pc' = "commit"
             /\ UNCHANGED <<tx, status, localVars, dbVars>>
    /\ UNCHANGED <<handler, paramVars, tagVars>>

\* tx.Commit() and c.JSON(http.StatusOK, theme).
StreamerThemeCommit ==
    /\ handler = "getStreamerTheme" /\ pc = "commit"
    /\ \E commitOK \in BOOLEAN :
        IF ~commitOK THEN Fail(500)
        ELSE /\ Commit
             /\ status' = 200
             /\ pc' = "done"
             /\ UNCHANGED localVars
    /\ UNCHANGED <<handler, paramVars, tagVars>>

\* ------------------------------------------------------------------ tag cache
TagIds == 1..MaxTagId

\* The contents the tags table may have: ids are the primary key and names
\* are unique.
TagTables ==
    UNION {{t \in [D -> TagNames] : \A x, y \in D : x # y => t[x] # t[y]} :
           D \in SUBSET TagIds}

\* m[k] = v on a Go map.
MapPut(m, k, v) ==
    [x \in DOMAIN m \cup {k} |-> IF x = k THEN v ELSE m[x]]

\* NewTagCache(): two empty maps.
NewTagCache == [tags |-> <<>>, nameToID |-> <<>>]

\* The rows of SELECT * FROM tags, in primary-key order.
SelectTags ==
    LET ids == SetToSeq(DOMAIN tagsTable)
    IN [i \in 1..Len(ids) |-> [ID |-> ids[i], Name |-> tagsTable[ids[i]]]]

\* A request to initTagCache arrives; calls are served one after another.
InitTagCacheCall ==
    /\ handler = "initTagCache" /\ pc = "done"
    /\ calls < MaxCalls
    /\ calls' = calls + 1
    /\ pc' = "start"
    /\ status' = 0
    /\ tx' = [state |-> "none", inserted |-> {}]
    /\ tagModels' = <<>>
    /\ idx' = 0
    /\ atCall' = [tags |-> tags, nameToID |-> nameToID]
    /\ UNCHANGED <<handler, paramVars, localVars, dbVars>>
    /\ UNCHANGED <<tagsTable, cacheVars, rd>>

\* Another client of the data store changes the tags table between calls.
TagsTableChange ==
    /\ handler = "initTagCache" /\ pc = "done"
    /\ calls < MaxCalls
    /\ tagsTable' \in TagTables \ {tagsTable}
    /\ UNCHANGED <<reqVars, paramVars, localVars, dbVars>>
    /\ UNCHANGED <<cacheVars, tagModels, idx, calls, rd, atCall>>

\* dbConn.BeginTxx; `defer tx.Rollback()` is registered.
InitTagCacheBegin ==
    /\ handler = "initTagCache" /\ pc = "start"
    /\ \E beginOK \in BOOLEAN :
        IF ~beginOK THEN Fail(500)
        ELSE /\ tx' = TxOpen
             /\ pc' = "select"
             /\ UNCHANGED <<status, localVars, dbVars>>
    /\ UNCHANGED <<handler, paramVars, tagVars>>

\* Mutant of InitTagCacheSelect: the rows are stored into the cache as soon
\* as they are read, before the commit.
InitTagCacheSelectStoresRows ==
    /\ handler = "initTagCache" /\ pc = "select"
    /\ \E selectOK \in BOOLEAN :
        IF ~selectOK
        THEN Fail(500) /\ UNCHANGED <<tagModels, tags, nameToID>>
        ELSE /\ tagModels' = SelectTags
             /\ tags' = [id \in DOMAIN tags \cup DOMAIN tagsTable |->
                            IF id \in DOMAIN tagsTable
                            THEN [ID |-> id, Name |-> tagsTable[id]]
                            ELSE tags[id]]
             /\ nameToID' = nameToID
             /\ pc' = "commit"
             /\ UNCHANGED <<tx, status, localVars, dbVars>>
    /\ UNCHANGED <<handler, paramVars>>
    /\ UNCHANGED <<tagsTable, mu, stable, idx, calls, rd, atCall>>

\* tx.SelectContext(ctx, &tagModels, "SELECT * FROM tags")
InitTagCacheSelect ==
    /\ handler = "initTagCache" /\ pc = "select"
    /\ \E selectOK \in BOOLEAN :
        IF ~selectOK
        THEN Fail(500) /\ UNCHANGED tagModels
        ELSE /\ tagModels' = SelectTags
             /\ pc' = "commit"
             /\ UNCHANGED <<tx, status, localVars, dbVars>>
    /\ UNCHANGED <<handler, paramVars>>
    /\ UNCHANGED <<tagsTable, cacheVars, idx, calls, rd, atCall>>

\* tx.Commit()
InitTagCacheCommit ==
    /\ handler = "initTagCache" /\ pc = "commit"
    /\ \E commitOK \in BOOLEAN :
        IF ~commitOK THEN Fail(500)
        ELSE /\ Commit
             /\ pc' = "lock"
             /\ UNCHANGED <<status, localVars>>
    /\ UNCHANGED <<handler, paramVars, tagVars>>

\* sync.RWMutex: Lock waits until no writer and no reader holds the mutex.
CanLock == ~mu.writer /\ mu.readers = 0

\* Mutant of CanRLock: readers do not wait for the writer.
CanRLockIgnoringWriter == TRUE

\* sync.RWMutex: RLock waits while a writer holds the mutex.
CanRLock == ~mu.writer

\* tagCache.mu.Lock(); `defer tagCache.mu.Unlock()` is registered.
InitTagCacheLock ==
    /\ handler = "initTagCache" /\ pc = "lock"
    /\ CanLock
    /\ mu' = [mu EXCEPT !.writer = TRUE]
    /\ idx' = 1
    /\ pc' = IF Len(tagModels) = 0 THEN "respond" ELSE "storeTag"
    /\ UNCHANGED <<handler, tx, status, paramVars, localVars, dbVars>>
    /\ UNCHANGED <<tagsTable, tags, nameToID, stable, tagModels, calls, rd, atCall>>

\* tagCache.tags[tagModel.ID] = *tagModel
InitTagCacheStoreTag ==
    /\ handler = "initTagCache" /\ pc = "storeTag"
    /\ tags' = MapPut(tags, tagModels[idx].ID, tagModels[idx])
    /\ pc' = "storeName"
    /\ UNCHANGED <<handler, tx, status, paramVars, localVars, dbVars>>
    /\ UNCHANGED <<tagsTable, nameToID, mu, stable, tagModels, idx, calls, rd, atCall>>

\* tagCache.nameToID[tagModel.Name] = tagModel.ID, and the loop advances.
InitTagCacheStoreName ==
    /\ handler = "initTagCache" /\ pc = "storeName"
    /\ nameToID' = MapPut(nameToID, tagModels[idx].Name, tagModels[idx].ID)
    /\ idx' = idx + 1
    /\ pc' = IF idx < Len(tagModels) THEN "storeTag" ELSE "respond"
    /\ UNCHANGED <<handler, tx, status, paramVars, localVars, dbVars>>
    /\ UNCHANGED <<tagsTable, tags, mu, stable, tagModels, calls, rd, atCall>>

\* c.JSON(http.StatusOK, &TagsResponse{}); the deferred Unlock runs, then
\* the deferred Rollback, a no-op after the commit.
InitTagCacheRespond ==
    /\ handler = "initTagCache" /\ pc = "respond"
    /\ Return(200)
    /\ mu' = [mu EXCEPT !.writer = FALSE]
    /\ stable' = [tags |-> tags, nameToID |-> nameToID]
    /\ UNCHANGED <<handler, paramVars, localVars, dbVars>>
    /\ UNCHANGED <<tagsTable, tags, nameToID, tagModels, idx, calls, rd, atCall>>

\* A reader that is not inside a cache operation.
IdleReader == [pc |-> "idle", op |-> "none", arg |-> 0, result |-> <<>>]

\* What the two lookups and the handler return over given maps.
TagByID(m, id) ==
    IF id \in DOMAIN m
    THEN [tag |-> m[id], found |-> TRUE]
    ELSE [tag |-> [ID |-> 0, Name |-> ""], found |-> FALSE]

TagIDByName(m, name) ==
    IF name \in DOMAIN m
    THEN [id |-> m[name], found |-> TRUE]
    ELSE [id |-> 0, found |-> FALSE]

AllTags(m) == {[ID |-> m[id].ID, Name |-> m[id].Name] : id \in DOMAIN m}

\* c.mu.RLock() of GetTagByID, GetTagIDByName or getTagHandler;
\* `defer c.mu.RUnlock()` is registered.
ReaderRLock(r) ==
    /\ rd[r].pc = "idle"
    /\ CanRLock
    /\ mu' = [mu EXCEPT !.readers = @ + 1]
    /\ \/ /\ "GetTagByID" \in ReaderOps[r]
          /\ \E id \in TagIds :
                rd' = [rd EXCEPT ![r] = [pc |-> "locked", op |-> "GetTagByID",
                                         arg |-> id, result |-> <<>>]]
       \/ /\ "GetTagIDByName" \in ReaderOps[r]
          /\ \E name \in TagNames :
                rd' = [rd EXCEPT ![r] = [pc |-> "locked", op |-> "GetTagIDByName",
                                         arg |-> name, result |-> <<>>]]
       \/ /\ "getTagHandler" \in ReaderOps[r]
          /\ rd' = [rd EXCEPT ![r] = [pc |-> "locked", op |-> "getTagHandler",
                                      arg |-> 0, result |-> {}]]
    /\ UNCHANGED <<reqVars, paramVars, localVars, dbVars>>
    /\ UNCHANGED <<tagsTable, tags, nameToID, stable, tagModels, idx, calls, atCall>>

\* tag, found := c.tags[id]
GetTagByID(r) ==
    /\ rd[r].pc = "locked" /\ rd[r].op = "GetTagByID"
    /\ rd' = [rd EXCEPT ![r].pc = "read", ![r].result = TagByID(tags, rd[r].arg)]
    /\ UNCHANGED <<reqVars, paramVars, localVars, dbVars>>
    /\ UNCHANGED <<tagsTable, cacheVars, tagModels, idx, calls, atCall>>

\* id, found := c.nameToID[name]
GetTagIDByName(r) ==
    /\ rd[r].pc = "locked" /\ rd[r].op = "GetTagIDByName"
    /\ rd' = [rd EXCEPT ![r].pc = "read", ![r].result = TagIDByName(nameToID, rd[r].arg)]
    /\ UNCHANGED <<reqVars, paramVars, localVars, dbVars>>
    /\ UNCHANGED <<tagsTable, cacheVars, tagModels, idx, calls, atCall>>

\* getTagHandler's `for _, tagModel := range tagCache.tags`: one iteration
\* appends an entry the loop has not visited, in no particular order; the
\* loop ends when none is left.
GetTagHandlerRange(r) ==
    /\ rd[r].pc = "locked" /\ rd[r].op = "getTagHandler"
    /\ LET left == DOMAIN tags \ {t.ID : t \in rd[r].result}
       IN IF left = {}
          THEN rd' = [rd EXCEPT ![r].pc = "read"]
          ELSE \E id \in left :
                rd' = [rd EXCEPT ![r].result =
                          @ \cup {[ID |-> tags[id].ID, Name |-> tags[id].Name]}]
    /\ UNCHANGED <<reqVars, paramVars, localVars, dbVars>>
    /\ UNCHANGED <<tagsTable, cacheVars, tagModels, idx, calls, atCall>>

\* The operation returns its result and the deferred RUnlock runs.
ReaderReturn(r) ==
    /\ rd[r].pc = "read"
    /\ mu' = [mu EXCEPT !.readers = @ - 1]
    /\ rd' = [rd EXCEPT ![r] = IdleReader]
    /\ UNCHANGED <<reqVars, paramVars, localVars, dbVars>>
    /\ UNCHANGED <<tagsTable, tags, nameToID, stable, tagModels, idx, calls, atCall>>

\* ------------------------------------------------------------------ spec
\* A request to one of the handlers arrives over some contents of the
\* tables its handler reads.
InitRequest ==
    /\ pc = "start" /\ status = 0
    /\ tx = [state |-> "none", inserted |-> {}]
    /\ ranking = <<>> /\ rank = 0 /\ reactionID = 0 /\ viewersCount = 0

InitUserStats ==
    /\ handler = "getUserStatistics"
    /\ users \in SUBSET Ids
    /\ userReactions \in [users -> ReactionCounts]
    /\ userTips \in [users -> TipValues]
    /\ username \in {UserName(u) : u \in Ids}
    /\ livestreams = {} /\ lsReactions = <<>> /\ lsTips = <<>>
    /\ reactions = {}
    /\ viewersHistory \in ViewersHistories
    /\ livestreamID = 0 /\ userID = 0

InitLivestreamStats ==
    /\ handler = "getLivestreamStatistics"
    /\ livestreams \in SUBSET Ids
    /\ lsReactions \in [livestreams -> ReactionCounts]
    /\ lsTips \in [livestreams -> TipValues]
    /\ livestreamID \in Ids
    /\ users = {} /\ userReactions = <<>> /\ userTips = <<>>
    /\ reactions = {}
    /\ username = <<>> /\ userID = 0
    /\ viewersHistory = <<>>

InitGetReactions ==
    /\ handler = "getReactions"
    /\ reactions \in {1..n : n \in 0..MaxRows}
    /\ livestreamID \in Ids
    /\ users = {} /\ userReactions = <<>> /\ userTips = <<>>
    /\ livestreams = {} /\ lsReactions = <<>> /\ lsTips = <<>>
    /\ username = <<>> /\ userID = 0
    /\ viewersHistory = <<>>

InitPostReaction ==
    /\ handler = "postReaction"
    /\ reactions \in {1..n : n \in 0..MaxRows}
    /\ users \in SUBSET Ids
    /\ livestreams \in SUBSET Ids
    /\ userID \in Ids
    /\ livestreamID \in Ids
    /\ userReactions = [u \in users |-> 0] /\ userTips = [u \in users |-> 0]
    /\ lsReactions = [l \in livestreams |-> 0] /\ lsTips = [l \in livestreams |-> 0]
    /\ username = <<>>
    /\ viewersHistory = <<>>

InitStreamerTheme ==
    /\ handler = "getStreamerTheme"
    /\ users \in SUBSET Ids
    /\ username \in {UserName(u) : u \in Ids}
    /\ userReactions = [u \in users |-> 0] /\ userTips = [u \in users |-> 0]
    /\ livestreams = {} /\ lsReactions = <<>> /\ lsTips = <<>>
    /\ reactions = {}
    /\ viewersHistory = <<>>
    /\ livestreamID = 0 /\ userID = 0

\* The tag cache right after NewTagCache(), over an empty tags table.
InitTagCacheEmpty ==
    /\ tags = NewTagCache.tags /\ nameToID = NewTagCache.nameToID
    /\ mu = [writer |-> FALSE, readers |-> 0]
    /\ tagModels = <<>> /\ idx = 0 /\ calls = 0
    /\ rd = [r \in Readers |-> IdleReader]
    /\ atCall = NewTagCache /\ stable = NewTagCache

Init ==
    /\ InitRequest
    /\ InitTagCacheEmpty
    /\ tagsTable = <<>>
    /\ \/ InitUserStats
       \/ InitLivestreamStats
       \/ InitGetReactions
       \/ InitPostReaction
       \/ InitStreamerTheme

Next ==
    \/ UserStatsBegin
    \/ UserStatsGetUser
    \/ UserStatsRank
    \/ UserStatsTotals
    \/ LivestreamStatsBegin
    \/ LivestreamStatsGetLivestream
    \/ LivestreamStatsRank
    \/ LivestreamStatsTotals
    \/ LivestreamStatsCommit
    \/ TargetRowDeleted
    \/ GetReactionsBegin
    \/ GetReactionsSelect
    \/ GetReactionsCommit
    \/ PostReactionBegin
    \/ PostReactionInsert
    \/ PostReactionLastInsertId
    \/ PostReactionFill
    \/ PostReactionCommit
    \/ StreamerThemeBegin
    \/ StreamerThemeQueries
    \/ StreamerThemeCommit

Spec == Init /\ [][Next]_vars

\* The process serves initTagCache calls, one after another, while other
\* requests read the cache concurrently and the tags table changes.
InitTags ==
    /\ handler = "initTagCache"
    /\ pc = "done" /\ status = 0
    /\ tx = [state |-> "none", inserted |-> {}]
    /\ ranking = <<>> /\ rank = 0 /\ reactionID = 0 /\ viewersCount = 0
    /\ InitTagCacheEmpty
    /\ tagsTable \in TagTables
    /\ users = {} /\ userReactions = <<>> /\ userTips = <<>>
    /\ livestreams = {} /\ lsReactions = <<>> /\ lsTips = <<>>
    /\ reactions = {} /\ viewersHistory = <<>>
    /\ username = <<>> /\ livestreamID = 0 /\ userID = 0

NextTags ==
    \/ InitTagCacheCall
    \/ TagsTableChange
    \/ InitTagCacheBegin
    \/ InitTagCacheSelect
    \/ InitTagCacheCommit
    \/ InitTagCacheLock
    \/ InitTagCacheStoreTag
    \/ InitTagCacheStoreName
    \/ InitTagCacheRespond
    \/ \E r \in Readers :
        \/ ReaderRLock(r)
        \/ GetTagByID(r)
        \/ GetTagIDByName(r)
        \/ GetTagHandlerRange(r)
        \/ ReaderReturn(r)

SpecTags == InitTags /\ [][NextTags]_vars

\* ------------------------------------------------------------------ ranking claims
\* The (id, score) records the ranking pass of the current request is over.
ScoreRecords ==
    LET entries == IF handler = "getUserStatistics"
                   THEN UserRankingEntries
                   ELSE LivestreamRankingEntries
    IN {entries[i] : i \in 1..Len(entries)}

\* The record of the designated target.
IsTarget(e) ==
    IF handler = "getUserStatistics"
    THEN e.Username = username
    ELSE e.LivestreamID = livestreamID

\* a's identifier is smaller than b's: numeric for livestream ids,
\* lexicographic for user names.
IdSmaller(a, b) ==
    IF handler = "getUserStatistics"
    THEN StringLess(a.Username, b.Username)
    ELSE a.LivestreamID < b.LivestreamID

\* e comes strictly after t in the order `ascending by score, ties by
\* ascending identifier'.
ComesAfter(t, e) ==
    \/ e.Score > t.Score
    \/ e.Score = t.Score /\ IdSmaller(t, e)

\* The sort-and-scan loop has run for the current request.
Ranked ==
    /\ handler \in {"getUserStatistics", "getLivestreamStatistics"}
    /\ pc \in {"totals", "commit", "done"}
    /\ rank > 0

\* The slice the handler sorts for the current request.
SortedRanking ==
    IF handler = "getUserStatistics"
    THEN Sort(UserRankingEntries)
    ELSE Sort(LivestreamRankingEntries)

\* The rank the handler's scan computes over the sorted slice for the
\* target e.
RankFor(sorted, e) ==
    IF handler = "getUserStatistics"
    THEN UserRank(sorted, e.Username)
    ELSE LivestreamRank(sorted, e.LivestreamID)

\* C1: for every non-empty set of records with unique ids and every target
\* in it, the rank the sort-and-scan loop computes is 1 + the number of
\* records that come strictly after the target in the order ascending by
\* score, ties by ascending id/username.
C1_RankIsOnePlusRecordsAfter ==
    Ranked =>
        LET S == ScoreRecords
        IN \A t \in S :
            IsTarget(t) => rank = 1 + Cardinality({e \in S : ComesAfter(t, e)})

\* C1 witness: a ranking pass over three users in which the target ties with
\* another record and ends up at rank 2.
C1_Witness ==
    /\ Ranked /\ handler = "getUserStatistics"
    /\ Cardinality(ScoreRecords) = 3
    /\ rank = 2
    /\ \E t, e \in ScoreRecords : IsTarget(t) /\ e # t /\ e.Score = t.Score

\* The records of the concrete scenario: (id=1, score=10), (id=2, score=30),
\* (id=3, score=10).
ScenarioRecords ==
    {[LivestreamID |-> 1, Score |-> 10],
     [LivestreamID |-> 2, Score |-> 30],
     [LivestreamID |-> 3, Score |-> 10]}

InScenario ==
    /\ Ranked /\ handler = "getLivestreamStatistics"
    /\ ScoreRecords = ScenarioRecords

\* C2 as stated: in the scenario the target id=3 gets rank 3 (and id=2 gets
\* rank 1).
C2_Original ==
    InScenario =>
        /\ livestreamID = 3 => rank = 3
        /\ livestreamID = 2 => rank = 1

\* C2 amended: in the scenario the target id=3 gets rank 2, id=2 gets rank 1,
\* and id=1, the smaller id of the tied pair, gets rank 3.
C2_ScenarioRanks ==
    InScenario =>
        /\ livestreamID = 3 => rank = 2
        /\ livestreamID = 2 => rank = 1
        /\ livestreamID = 1 => rank = 3

\* C2 witness: the scenario was ranked for the target id=3.
C2_Witness ==
    InScenario /\ livestreamID = 3

\* C3: for two records a, b with equal score and a's id smaller than b's
\* (numeric for livestreams, lexicographic for user names), the rank computed
\* for target a is strictly greater than the rank computed for target b.
C3_SmallerIdRanksBelow ==
    Ranked =>
        LET S == ScoreRecords
            sorted == SortedRanking
            rankOf == [e \in S |-> RankFor(sorted, e)]
        IN \A a, b \in S :
            (a.Score = b.Score /\ IdSmaller(a, b)) =>
                /\ rankOf[a] > rankOf[b]
                /\ IsTarget(a) => rank > rankOf[b]
                /\ IsTarget(b) => rankOf[a] > rank

\* C3 witness: a user ranking pass whose target, user 1, has the same score
\* as user 3, whose name is greater.
C3_Witness ==
    /\ Ranked /\ handler = "getUserStatistics"
    /\ \E a, b \in ScoreRecords :
        /\ IsTarget(a) /\ a.Score = b.Score /\ IdSmaller(a, b)
        /\ a.Username = UserName(1) /\ b.Username = UserName(3)

\* t's score is strictly greater (dir = 1) or strictly lower (dir = -1) than
\* the score of every other record of S.
UniqueExtreme(S, t, dir) ==
    \A e \in S \ {t} : dir * t.Score > dir * e.Score

\* C4: a target whose score is strictly greater than the score of every
\* other record gets rank 1.
C4_UniqueMaximumIsRankOne ==
    Ranked =>
        LET S == ScoreRecords
        IN \A t \in S :
            (IsTarget(t) /\ UniqueExtreme(S, t, 1)) => rank = 1

\* C4 witness: a user ranking pass over three users whose target is the
\* unique maximum.
C4_Witness ==
    /\ Ranked /\ handler = "getUserStatistics"
    /\ Cardinality(ScoreRecords) = 3
    /\ \E t \in ScoreRecords : IsTarget(t) /\ UniqueExtreme(ScoreRecords, t, 1)

\* C5: a target whose score is strictly lower than the score of every other
\* record gets rank |S|, the total number of records.
C5_UniqueMinimumIsRankLast ==
    Ranked =>
        LET S == ScoreRecords
        IN \A t \in S :
            (IsTarget(t) /\ UniqueExtreme(S, t, -1)) => rank = Cardinality(S)

\* C5 witness: a livestream ranking pass over three livestreams whose target
\* is the unique minimum.
C5_Witness ==
    /\ Ranked /\ handler = "getLivestreamStatistics"
    /\ Cardinality(ScoreRecords) = 3
    /\ \E t \in ScoreRecords : IsTarget(t) /\ UniqueExtreme(ScoreRecords, t, -1)

\* No ranking entry is the target's.
TargetAbsent ==
    \A e \in ScoreRecords : ~IsTarget(e)

\* C11: when the target is not among the ranking entries (the entry list may
\* be empty), the scan increments rank once per record, so rank = |S| + 1,
\* and the handler goes on without an error response of its own: no response
\* while it is running, and at its end 200, or the 500 of a later query that
\* failed.
C11_AbsentTargetRanksAfterAll ==
    (Ranked /\ TargetAbsent) =>
        /\ rank = Cardinality(ScoreRecords) + 1
        /\ pc # "done" => status = 0
        /\ pc = "done" => status \in {200, 500}

\* C11 witness: getUserStatisticsHandler answered 200 with rank 3 after a
\* ranking pass over two users, none of whom is the target.
C11_Witness ==
    /\ Ranked /\ TargetAbsent
    /\ handler = "getUserStatistics"
    /\ Cardinality(ScoreRecords) = 2
    /\ rank = 3
    /\ pc = "done" /\ status = 200

\* ------------------------------------------------------------------ viewers claim
\* The number of livestream_viewers_history rows of all the livestreams the
\* target user owns.
TotalViewersHistory ==
    ViewersCount(SetToSeq(DOMAIN viewersHistory))

\* C12: the viewers_count of a successful getUserStatisticsHandler response
\* equals the number of livestream_viewers_history rows summed over all the
\* livestreams the target user owns.
C12_ViewersCountIsTotalHistory ==
    (handler = "getUserStatistics" /\ pc = "done" /\ status = 200) =>
        viewersCount = TotalViewersHistory

\* ------------------------------------------------------------------ transaction claims
\* C9: every handler that begins a transaction commits it on every path
\* that ends in a success (2xx) response.
C9_SuccessMeansCommitted ==
    (pc = "done" /\ status \in 200..299) => tx.state = "committed"

\* A step of postReactionHandler that fails after the INSERT: LastInsertId,
\* fillReactionResponse or Commit returns an error.
FailsAfterInsert ==
    /\ handler = "postReaction"
    /\ pc \in {"lastInsertId", "fill", "commit"}
    /\ pc' = "done"
    /\ status' # 201

\* C10: in postReactionHandler, a failure of a data-store step after the
\* INSERT ends the request with an error response and the transaction
\* rolled back, leaving the reactions table as it was; and the reactions
\* table gets a row only in the step that answers 201 Created.
C10_ReactionPersistedOnlyWithCreated ==
    [][/\ FailsAfterInsert =>
            /\ status' >= 400
            /\ tx'.state = "rolledback" /\ tx'.inserted = {}
            /\ reactions' = reactions
       /\ reactions' # reactions =>
            /\ handler = "postReaction" /\ pc' = "done" /\ status' = 201
            /\ reactions' = reactions \cup {reactionID} /\ reactionID # 0
      ]_vars

\* C10 witness: postReactionHandler inserted a row, got its id, failed in a
\* later step and answered 500 with the transaction rolled back.
C10_Witness ==
    /\ handler = "postReaction" /\ pc = "done"
    /\ reactionID # 0
    /\ status = 500
    /\ tx.state = "rolledback"

\* ------------------------------------------------------------------ tag cache claims
\* The two indexes that hold exactly the given rows.
TagsOfRows(rows) ==
    [id \in {rows[i].ID : i \in 1..Len(rows)} |->
        CHOOSE row \in {rows[i] : i \in 1..Len(rows)} : row.ID = id]

NameToIDOfRows(rows) ==
    [name \in {rows[i].Name : i \in 1..Len(rows)} |->
        (CHOOSE row \in {rows[i] : i \in 1..Len(rows)} : row.Name = name).ID]

\* The latest initTagCache call has returned, with the given outcome.
InitTagCacheReturned(ok) ==
    /\ handler = "initTagCache" /\ pc = "done" /\ status # 0
    /\ (status = 200) = ok

\* C6: after every successful initTagCache call, a reload included, both
\* cache indexes contain exactly the rows read by that call: nothing loaded
\* by an earlier call and missing from the latest read stays retrievable.
C6_CacheIsExactlyTheRowsRead ==
    InitTagCacheReturned(TRUE) =>
        /\ tags = TagsOfRows(tagModels)
        /\ nameToID = NameToIDOfRows(tagModels)

\* C13: whenever no initTagCache call is running, after any number of calls
\* over any tags-table contents, the two indexes agree: every name n of
\* nameToID leads to an id that tags holds, and the tag held there is named
\* n, so GetTagIDByName followed by GetTagByID returns a tag of that name.
C13_IndexesAgree ==
    (handler = "initTagCache" /\ pc = "done") =>
        \A n \in DOMAIN nameToID :
            /\ nameToID[n] \in DOMAIN tags
            /\ TagByID(tags, TagIDByName(nameToID, n).id).tag.Name = n

\* What a reader that holds the given operation and argument gets from the
\* cache contents c.
Observation(c, r) ==
    CASE rd[r].op = "GetTagByID" -> TagByID(c.tags, rd[r].arg)
      [] rd[r].op = "GetTagIDByName" -> TagIDByName(c.nameToID, rd[r].arg)
      [] rd[r].op = "getTagHandler" -> AllTags(c.tags)
      [] OTHER -> <<>>

\* C7: under any interleaving of initTagCache with concurrent GetTagByID,
\* GetTagIDByName and getTagHandler calls, no reader holds the mutex together
\* with the writer, and every read sees the complete cache contents of a
\* moment when no initialization held the write lock: those from before the
\* initialization in flight or those after the latest finished one.
C7_ReadersSeeNoIntermediateState ==
    /\ mu.readers > 0 => ~mu.writer
    /\ \A r \in Readers :
        /\ rd[r].pc = "read" => rd[r].result = Observation(stable, r)
        /\ (rd[r].pc = "locked" /\ rd[r].op = "getTagHandler") =>
                rd[r].result \subseteq AllTags(stable.tags)

\* C7 witness: an initTagCache call that has rows to store waits for the
\* lock while one reader has looked an id up and found nothing and another
\* reader is inside getTagHandler.
C7_Witness ==
    /\ handler = "initTagCache" /\ pc = "lock" /\ Len(tagModels) > 0
    /\ \E r1, r2 \in Readers :
        /\ rd[r1].pc = "read" /\ rd[r1].op = "GetTagByID"
        /\ ~rd[r1].result.found
        /\ rd[r1].arg = tagModels[1].ID
        /\ rd[r2].pc = "locked" /\ rd[r2].op = "getTagHandler"

\* C8: if initTagCache fails at beginning the transaction, at the SELECT or
\* at the commit, it returns an error and both cache indexes are exactly
\* what they were before the call.
C8_FailedInitLeavesCacheUntouched ==
    InitTagCacheReturned(FALSE) =>
        /\ status = 500
        /\ tags = atCall.tags
        /\ nameToID = atCall.nameToID

\* C8 witness: a later initTagCache call read a row the cache does not
\* hold, then failed (at the commit) over a cache an earlier call had filled.
C8_Witness ==
    /\ InitTagCacheReturned(FALSE)
    /\ calls > 1
    /\ tx.state = "rolledback"
    /\ DOMAIN tags # {}
    /\ \E i \in 1..Len(tagModels) : tagModels[i].ID \notin DOMAIN tags

=============================================================================
